---- MODULE Spec2Model ----
(***************************************************************************)
(* Non-circulating supply of a ledger snapshot                             *)
(* (runtime/src/non_circulating_supply.rs).                                *)
(*                                                                         *)
(* The bank (ledger snapshot) is the state: its accounts, its clock, the   *)
(* secondary indexes its account store keeps and the ProgramId index's     *)
(* entries for the stake program.  calculate_non_circulating_supply is one *)
(* action; its outcome is kept in `supply` together with the snapshot it   *)
(* read.                                                                   *)
(***************************************************************************)
EXTENDS Integers, Sequences, FiniteSets, TLC

VARIABLES
    accounts,         \* Pubkey -> account stored in the bank, or NoAccount
    clock,            \* bank.clock(): [epoch, unix_timestamp]
    account_indexes,  \* accounts_db.account_indexes: the secondary indexes kept
    program_index,    \* keys the ProgramId index lists under the stake program
    stores,           \* store_account calls made so far
    overflow_checks,  \* is the build one with overflow checks (debug) or not (release)
    supply,           \* outcome of the last calculate_non_circulating_supply on this bank
    parent_supply     \* outcome of the last call on the bank's parent

vars ==
    <<accounts, clock, account_indexes, program_index, stores, overflow_checks, supply,
      parent_supply>>

-----------------------------------------------------------------------------
(* Bounds of the model *)

\* width of the lamports word of the model; it stands for the 64 of u64
LamportBits == 3
\* last epoch the bank is advanced to
MaxEpoch == 1
\* last unix_timestamp the bank's clock is advanced to
MaxTimestamp == 1
\* store_account calls in one behaviour
MaxStores == 1

U64_MODULUS == 2 ^ LamportBits
U64_MAX == U64_MODULUS - 1

-----------------------------------------------------------------------------
(* Identifiers *)

stake_program_id == "Stake11111111111111111111111111111111111111"
system_program_id == "11111111111111111111111111111111"

non_circulating_accounts == << "11111111111111111111111111111112" >>

withdraw_authority ==
    << "8CUUMKYNGxdgYio5CLHRHyzMEhhVRMcqefgE6dLqnVRK",
       "3FFaheyqtyAXZSYxDzsr5CVKvJuvZD1WE1VEsBtDbRqB",
       "FdGYQdiRky8NZzN9wZtczTBcWLYYRXrJ3LMDhqDPn5rM",
       "4e6KwQpyzGQPfgVr5Jn3g5jLjbXB4pKPa2jRLohEb1QA",
       "FjiEiVKyMGzSLpqoB27QypukUfyWHrwzPcGNtopzZVdh",
       "DwbVjia1mYeSGoJipzhaf4L5hfer2DJ1Ys681VzQm5YY",
       "GeMGyvsTEsANVvcT5cme65Xq5MVU8fVVzMQ13KAZFNS2",
       "Bj3aQ2oFnZYfNR1njzRjmWizzuhvfcYLckh76cqsbuBM",
       "4ZJhPQAgUseCsWhKvJLTmmRRUV74fdoTpQLNfKoekbPY",
       "HXdYQ5gixrY2H6Y9gqsD8kPM2JQKSaRiohDQtLbZkRWE" >>

Range(s) == {s[i] : i \in DOMAIN s}

\* Vec::contains
Contains(list, x) == \E i \in DOMAIN list : list[i] = x

\* the keys of the model: the static key and two keys made by new_rand()
Pubkeys == Range(non_circulating_accounts) \cup {"rand1", "rand2"}

\* withdrawers a stake account of the model may name: the first and the last
\* restricted authority, and the account's own key (Authorized::auto)
Withdrawers == {withdraw_authority[1], withdraw_authority[Len(withdraw_authority)], "rand1"}

-----------------------------------------------------------------------------
(* Accounts and stake state *)

NoAccount == [exists |-> FALSE]

Account(lamports, owner, data) ==
    [exists |-> TRUE, lamports |-> lamports, owner |-> owner, data |-> data]

Lockup(epoch, unix_timestamp) ==
    [epoch |-> epoch, unix_timestamp |-> unix_timestamp, custodian |-> system_program_id]

Meta(lockup, withdrawer) ==
    [lockup |-> lockup, authorized |-> [staker |-> withdrawer, withdrawer |-> withdrawer]]

\* Account data is the serialized StakeStateV2: the enum discriminant, then the
\* Meta of the variants that carry one.  Anything else does not deserialize.
DISCRIMINANT_UNINITIALIZED == 0
DISCRIMINANT_INITIALIZED == 1
DISCRIMINANT_STAKE == 2
DISCRIMINANT_REWARDS_POOL == 3

None == [some |-> FALSE]
Some(v) == [some |-> TRUE, value |-> v]

Uninitialized == [variant |-> "Uninitialized"]
RewardsPool == [variant |-> "RewardsPool"]
Initialized(meta) == [variant |-> "Initialized", meta |-> meta]
Stake(meta) == [variant |-> "Stake", meta |-> meta]

\* stake_state::from(account): account.state().ok()
stake_state_from(account) ==
    LET data == account.data IN
    IF Len(data) = 0 THEN None
    ELSE IF data[1] = DISCRIMINANT_UNINITIALIZED /\ Len(data) = 1 THEN Some(Uninitialized)
    ELSE IF data[1] = DISCRIMINANT_REWARDS_POOL /\ Len(data) = 1 THEN Some(RewardsPool)
    ELSE IF data[1] = DISCRIMINANT_INITIALIZED /\ Len(data) = 2 THEN Some(Initialized(data[2]))
    ELSE IF data[1] = DISCRIMINANT_STAKE /\ Len(data) = 2 THEN Some(Stake(data[2]))
    ELSE None

\* Option::unwrap_or_default, StakeStateV2::default() being Uninitialized
unwrap_or_default(opt) == IF opt.some THEN opt.value ELSE Uninitialized

\* Lockup::is_in_force(clock, custodian)
is_in_force(lockup, clk, custodian) ==
    IF custodian = Some(lockup.custodian) THEN FALSE
    ELSE lockup.unix_timestamp > clk.unix_timestamp \/ lockup.epoch > clk.epoch

-----------------------------------------------------------------------------
(* The bank's queries *)

Ok(v) == [ok |-> TRUE, value |-> v]
Err == [ok |-> FALSE]

\* the subsequence of `order` whose keys are in `keep`
RECURSIVE SelectKeys(_, _)
SelectKeys(order, keep) ==
    IF order = << >> THEN << >>
    ELSE IF Head(order) \in keep THEN << Head(order) >> \o SelectKeys(Tail(order), keep)
    ELSE SelectKeys(Tail(order), keep)

\* Bank::get_balance: zero for a key the bank has no account for
get_balance(accts, pubkey) ==
    IF accts[pubkey].exists THEN accts[pubkey].lamports ELSE 0

\* Bank::get_program_accounts: the full scan, filtered by owner equality
get_program_accounts(accts, program_id, order, fails) ==
    IF fails THEN Err
    ELSE LET keep == {k \in DOMAIN accts : accts[k].exists /\ accts[k].owner = program_id}
             keys == SelectKeys(order, keep)
         IN  Ok([i \in DOMAIN keys |-> << keys[i], accts[keys[i]] >>])

\* Bank::get_filtered_indexed_accounts: what the index lists under the key, each
\* account loaded from the bank and passed through the caller's filter (a
\* function of the account)
get_filtered_indexed_accounts(accts, index, filter, order, fails) ==
    IF fails THEN Err
    ELSE LET keep == {k \in index : accts[k].exists /\ filter[accts[k]]}
             keys == SelectKeys(order, keep)
         IN  Ok([i \in DOMAIN keys |-> << keys[i], accts[keys[i]] >>])

-----------------------------------------------------------------------------
(* calculate_non_circulating_supply *)

\* mutant: the index is trusted, the closure keeps every account
owner_filter_trusting(account) == TRUE

\* the closure given to get_filtered_indexed_accounts
owner_filter(account) == account.owner = stake_program_id

\* mutant: the arms look at the lockup alone
lockup_alone(meta, clk) == is_in_force(meta.lockup, clk, None)

\* mutant: the arms take a lockup epoch that is set for a lockup in force
lockup_set_or_authority(meta, clk) ==
    \/ meta.lockup.epoch > 0
    \/ Contains(withdraw_authority, meta.authorized.withdrawer)

\* the two arms' condition
lockup_or_authority(meta, clk) ==
    \/ is_in_force(meta.lockup, clk, None)
    \/ Contains(withdraw_authority, meta.authorized.withdrawer)

\* mutant: the rewards pool is inserted as well
is_non_circulating_or_pool(stake_account, clk) ==
    CASE stake_account.variant = "Initialized" -> lockup_or_authority(stake_account.meta, clk)
      [] stake_account.variant = "Stake" -> lockup_or_authority(stake_account.meta, clk)
      [] stake_account.variant = "RewardsPool" -> TRUE
      [] OTHER -> FALSE

\* the match on the decoded stake state: is the key inserted
is_non_circulating(stake_account, clk) ==
    CASE stake_account.variant = "Initialized" -> lockup_or_authority(stake_account.meta, clk)
      [] stake_account.variant = "Stake" -> lockup_or_authority(stake_account.meta, clk)
      [] OTHER -> FALSE

\* mutant: the static keys are not inserted
insert_static_skipped(set, keys) == set

\* for key in non_circulating_accounts() { set.insert(key) }
RECURSIVE insert_static(_, _)
insert_static(set, keys) ==
    IF keys = << >> THEN set
    ELSE insert_static(set \cup {Head(keys)}, Tail(keys))

\* mutant: the loop ends at the first account that does not decode
RECURSIVE classify_until_malformed(_, _, _)
classify_until_malformed(set, stake_accounts, clk) ==
    IF stake_accounts = << >> THEN set
    ELSE LET pubkey == Head(stake_accounts)[1]
             account == Head(stake_accounts)[2]
             decoded == stake_state_from(account)
         IN  IF ~decoded.some THEN set
             ELSE classify_until_malformed(
                      IF is_non_circulating(decoded.value, clk) THEN set \cup {pubkey} ELSE set,
                      Tail(stake_accounts), clk)

\* for (pubkey, account) in stake_accounts.iter() { ... }
RECURSIVE classify(_, _, _)
classify(set, stake_accounts, clk) ==
    IF stake_accounts = << >> THEN set
    ELSE LET pubkey == Head(stake_accounts)[1]
             account == Head(stake_accounts)[2]
             stake_account == unwrap_or_default(stake_state_from(account))
         IN  classify(IF is_non_circulating(stake_account, clk) THEN set \cup {pubkey} ELSE set,
                      Tail(stake_accounts), clk)

\* u64 addition as the build compiles it: a panic with overflow checks, the sum
\* modulo 2^64 without
add_u64(acc, b, checks) ==
    IF acc.panic THEN acc
    ELSE IF acc.value + b > U64_MAX
         THEN IF checks THEN [panic |-> TRUE, value |-> 0]
              ELSE [panic |-> FALSE, value |-> (acc.value + b) % U64_MODULUS]
         ELSE [panic |-> FALSE, value |-> acc.value + b]

\* set.iter().map(|pubkey| bank.get_balance(pubkey)).sum()
RECURSIVE sum_balances(_, _, _, _)
sum_balances(acc, keys, accts, checks) ==
    IF keys = << >> THEN acc
    ELSE sum_balances(add_u64(acc, get_balance(accts, Head(keys)), checks),
                      Tail(keys), accts, checks)

\* the enumeration of the stake program's accounts, by the index if there is one
scan_stake_accounts(bank, scan_order, scan_fails) ==
    IF "ProgramId" \in bank.account_indexes
    THEN get_filtered_indexed_accounts(
             bank.accounts, bank.program_index,
             [account \in {bank.accounts[k] : k \in DOMAIN bank.accounts} |->
                 IF account.exists THEN owner_filter(account) ELSE FALSE],
             scan_order, scan_fails)
    ELSE get_program_accounts(bank.accounts, stake_program_id, scan_order, scan_fails)

\* The outcomes of a call.  snap and scan_failed record the call's inputs: the
\* bank that was read, and did the enumeration fail.
ScanError(bank) ==
    [kind |-> "Err", lamports |-> 0, accounts |-> << >>, snap |-> bank]
Panicked(bank) ==
    [kind |-> "Panic", lamports |-> 0, accounts |-> << >>, snap |-> bank]
NonCirculatingSupply(lamports, accts, bank) ==
    [kind |-> "Ok", lamports |-> lamports, accounts |-> accts, snap |-> bank]

\* mutant: a failed enumeration is taken for an empty one
supply_of_scan_swallowed(bank, stake_accounts, hash_order, checks) ==
    LET yielded == IF stake_accounts.ok THEN stake_accounts.value ELSE << >>
        set == classify(insert_static({}, non_circulating_accounts), yielded, bank.clock)
        iter == SelectKeys(hash_order, set)
        lamports == sum_balances([panic |-> FALSE, value |-> 0], iter,
                                 bank.accounts, checks)
    IN  IF lamports.panic THEN Panicked(bank)
        ELSE NonCirculatingSupply(lamports.value, iter, bank)

\* the `?` on the enumeration's result and what follows it
supply_of_scan(bank, stake_accounts, hash_order, checks) ==
    IF ~stake_accounts.ok THEN ScanError(bank)
    ELSE LET set == classify(insert_static({}, non_circulating_accounts),
                             stake_accounts.value, bank.clock)
             iter == SelectKeys(hash_order, set)
             lamports == sum_balances([panic |-> FALSE, value |-> 0], iter,
                                      bank.accounts, checks)
         IN  IF lamports.panic THEN Panicked(bank)
             ELSE NonCirculatingSupply(lamports.value, iter, bank)

\* `checks`: does the build check u64 arithmetic for overflow
calculate_non_circulating_supply(bank, scan_order, scan_fails, hash_order, checks) ==
    supply_of_scan(bank, scan_stake_accounts(bank, scan_order, scan_fails),
                   hash_order, checks)

-----------------------------------------------------------------------------
(* The inputs of the model *)

Balances == {0, 1, U64_MAX}

LockupEpochs == {0, 1}
LockupTimestamps == {0, 1}

Metas ==
    {Meta(Lockup(e, t), w) : e \in LockupEpochs, t \in LockupTimestamps, w \in Withdrawers}

\* data that deserializes to no stake state: no bytes, an unknown discriminant
MalformedData == {<< >>, << 4 >>}

StakeData ==
    MalformedData
        \cup {<< DISCRIMINANT_UNINITIALIZED >>, << DISCRIMINANT_REWARDS_POOL >>}
        \cup {<< DISCRIMINANT_INITIALIZED, m >> : m \in Metas}
        \cup {<< DISCRIMINANT_STAKE, m >> : m \in Metas}

Owners == {stake_program_id, system_program_id}

\* the orders in which a scan may yield the keys and a HashSet iterate them
Orders ==
    { << "11111111111111111111111111111112", "rand1", "rand2" >>,
      << "rand2", "rand1", "11111111111111111111111111111112" >> }

Bank ==
    [accounts |-> accounts, clock |-> clock, account_indexes |-> account_indexes,
     program_index |-> program_index]

StakeOwned(accts) == {k \in Pubkeys : accts[k].exists /\ accts[k].owner = stake_program_id}

NoBank == [accounts |-> << >>, clock |-> << >>, account_indexes |-> {}, program_index |-> {}]

NotCalled ==
    [kind |-> "NotCalled", lamports |-> 0, accounts |-> << >>, snap |-> NoBank,
     scan_failed |-> FALSE]

\* an outcome with the inputs of the call that gave it
Outcome(bank, scan_order, scan_fails, hash_order, checks) ==
    LET r == calculate_non_circulating_supply(bank, scan_order, scan_fails,
                                              hash_order, checks)
    IN  [kind |-> r.kind, lamports |-> r.lamports, accounts |-> r.accounts,
         snap |-> r.snap, scan_failed |-> scan_fails]

-----------------------------------------------------------------------------
(* Actions *)

\* the call of calculate_non_circulating_supply on the bank (a bank is asked once)
Calculate ==
    /\ supply = NotCalled
    /\ \E scan_fails \in BOOLEAN, scan_order \in Orders, hash_order \in Orders :
         supply' = Outcome(Bank, scan_order, scan_fails, hash_order, overflow_checks)
    /\ UNCHANGED <<accounts, clock, account_indexes, program_index, stores, overflow_checks,
                   parent_supply>>

\* the accounts a store_account of the model writes under `key`: the account
\* with another balance, or, under a static key, a system account that holds
\* a balance and no data
Stored(key) ==
    (IF key \in Range(non_circulating_accounts)
     THEN {Account(b, system_program_id, << >>) : b \in Balances}
     ELSE {})
        \cup (IF accounts[key].exists
              THEN {[accounts[key] EXCEPT !.lamports = b] : b \in Balances}
              ELSE {})

\* bank.store_account(&key, &account).  The ProgramId index gains the key of an
\* account the stake program owns and keeps the keys it has.
StoreAccount ==
    /\ stores < MaxStores
    /\ \E key \in Pubkeys : \E account \in Stored(key) \ {accounts[key]} :
         /\ accounts' = [accounts EXCEPT ![key] = account]
         /\ program_index' =
              IF "ProgramId" \in account_indexes /\ account.owner = stake_program_id
              THEN program_index \cup {key} ELSE program_index
    /\ stores' = stores + 1
    /\ UNCHANGED <<clock, account_indexes, overflow_checks, supply, parent_supply>>

\* bank = new_from_parent(bank): the child bank has the parent's accounts, a
\* later clock, and has had no call yet
NewFromParent ==
    /\ \E e \in {clock.epoch, clock.epoch + 1}, t \in {clock.unix_timestamp, clock.unix_timestamp + 1} :
         /\ e <= MaxEpoch
         /\ t <= MaxTimestamp
         /\ <<e, t>> # <<clock.epoch, clock.unix_timestamp>>
         /\ clock' = [epoch |-> e, unix_timestamp |-> t]
    /\ parent_supply' = supply
    /\ supply' = NotCalled
    /\ UNCHANGED <<accounts, account_indexes, program_index, stores, overflow_checks>>

-----------------------------------------------------------------------------
(* Specifications *)

IndexOf(accts, indexes, stale) == IF "ProgramId" \in indexes THEN StakeOwned(accts) \cup stale ELSE {}

\* Spec: one frozen bank, drawn from the inputs of the model, and the calls on it.
\* The static key has a system account, or a stake account of its own; rand1
\* ranges over every stake account of the model; rand2 over one of each kind.
LockedMeta == Meta(Lockup(1, 0), "rand1")
FreeMeta == Meta(Lockup(0, 0), "rand1")
RestrictedMeta == Meta(Lockup(0, 0), withdraw_authority[1])

InitStatic ==
    {NoAccount}
        \cup {Account(b, system_program_id, << >>) : b \in Balances}
        \cup {Account(1, stake_program_id, d) :
                d \in {<< >>, << DISCRIMINANT_INITIALIZED, LockedMeta >>,
                       << DISCRIMINANT_INITIALIZED, FreeMeta >>}}

InitRand1 ==
    {NoAccount}
        \cup {Account(1, stake_program_id, d) : d \in StakeData}
        \cup {Account(U64_MAX, stake_program_id, << DISCRIMINANT_INITIALIZED, LockedMeta >>)}
        \cup {Account(1, system_program_id, d) :
                d \in {<< >>, << DISCRIMINANT_INITIALIZED, LockedMeta >>}}

InitRand2 ==
    {NoAccount}
        \cup {Account(b, stake_program_id, d) :
                b \in {0, U64_MAX},
                d \in MalformedData
                        \cup {<< DISCRIMINANT_REWARDS_POOL >>,
                              << DISCRIMINANT_INITIALIZED, LockedMeta >>,
                              << DISCRIMINANT_STAKE, RestrictedMeta >>}}
        \cup {Account(0, system_program_id, << DISCRIMINANT_STAKE, RestrictedMeta >>)}

InitAccounts ==
    {[k \in Pubkeys |-> IF k = "rand1" THEN a1 ELSE IF k = "rand2" THEN a2 ELSE a0] :
        a0 \in InitStatic, a1 \in InitRand1, a2 \in InitRand2}

Init ==
    /\ accounts \in InitAccounts
    /\ clock \in [epoch : 0..MaxEpoch, unix_timestamp : 0..MaxTimestamp]
    /\ account_indexes \in {{}, {"ProgramId"}}
    /\ \E stale \in {{}, Pubkeys \ StakeOwned(accounts)} :
         program_index = IndexOf(accounts, account_indexes, stale)
    /\ stores = MaxStores    \* the bank is frozen: nothing is stored in it
    /\ overflow_checks \in BOOLEAN
    /\ supply = NotCalled
    /\ parent_supply = NotCalled

Next == Calculate

Spec == Init /\ [][Next]_vars

\* SpecEvolve: a chain of banks.  The first has the static key as a system
\* account or a stake account under lockup, rand1 as a stake account of any
\* lockup or of a restricted withdrawer, rand2 as a stake account under lockup;
\* accounts are stored and child banks made from there.
EvolveStatic ==
    {Account(1, system_program_id, << >>),
     Account(1, stake_program_id, << DISCRIMINANT_INITIALIZED, LockedMeta >>)}

EvolveRand1 ==
    {Account(1, stake_program_id, << DISCRIMINANT_INITIALIZED, Meta(Lockup(e, t), "rand1") >>) :
        e \in LockupEpochs, t \in LockupTimestamps}
        \cup {Account(1, stake_program_id, << DISCRIMINANT_INITIALIZED,
                                              Meta(Lockup(1, 0), withdraw_authority[1]) >>),
              Account(1, stake_program_id, << DISCRIMINANT_STAKE, LockedMeta >>)}

EvolveRand2 ==
    {Account(1, stake_program_id, << DISCRIMINANT_INITIALIZED, LockedMeta >>)}

InitEvolve ==
    /\ accounts \in
         {[k \in Pubkeys |-> IF k = "rand1" THEN a1 ELSE IF k = "rand2" THEN a2 ELSE a0] :
            a0 \in EvolveStatic, a1 \in EvolveRand1, a2 \in EvolveRand2}
    /\ clock = [epoch |-> 0, unix_timestamp |-> 0]
    /\ account_indexes \in {{}, {"ProgramId"}}
    /\ program_index = IndexOf(accounts, account_indexes, {})
    /\ stores = 0
    /\ overflow_checks \in BOOLEAN
    /\ supply = NotCalled
    /\ parent_supply = NotCalled

NextEvolve == Calculate \/ StoreAccount \/ NewFromParent

SpecEvolve == InitEvolve /\ [][NextEvolve]_vars

-----------------------------------------------------------------------------
(* What the claims speak of *)

Reported(outcome) == Range(outcome.accounts)

\* the decoded state of an account is Initialized{meta} or Delegated{meta, ..}
HasMeta(account) ==
    LET st == stake_state_from(account)
    IN  st.some /\ st.value.variant \in {"Initialized", "Stake"}

MetaOf(account) == stake_state_from(account).value.meta

IsStakeAccount(bank, k) ==
    /\ bank.accounts[k].exists
    /\ bank.accounts[k].owner = stake_program_id
    /\ HasMeta(bank.accounts[k])

Restricted(bank, k) ==
    MetaOf(bank.accounts[k]).authorized.withdrawer \in Range(withdraw_authority)

LockedStake(bank, k) ==
    /\ IsStakeAccount(bank, k)
    /\ \/ is_in_force(MetaOf(bank.accounts[k]).lockup, bank.clock, None)
       \/ Restricted(bank, k)

\* an account of the stake program whose bytes decode to no stake state
Malformed(bank, k) ==
    /\ bank.accounts[k].exists
    /\ bank.accounts[k].owner = stake_program_id
    /\ ~stake_state_from(bank.accounts[k]).some

\* the sum of the balances of `keys` in the integers
RECURSIVE TrueSum(_, _)
TrueSum(accts, keys) ==
    IF keys = {} THEN 0
    ELSE LET k == CHOOSE x \in keys : TRUE
         IN  get_balance(accts, k) + TrueSum(accts, keys \ {k})

NoDuplicates(seq) == \A i, j \in DOMAIN seq : seq[i] = seq[j] => i = j

\* C1: the identifiers of a report are exactly the static list and the stake
\* program's Initialized or Delegated accounts whose lockup is in force under the
\* snapshot's clock or whose withdrawer is a restricted authority.
C1_ExactSet ==
    supply.kind = "Ok" =>
        Reported(supply) =
            Range(non_circulating_accounts)
                \cup {k \in Pubkeys : LockedStake(supply.snap, k)}

\* a report that has a classified key and leaves out a rewards pool of the stake
\* program, or a stake state under lockup that another program owns
C1_Witness ==
    /\ supply.kind = "Ok"
    /\ \E k \in Reported(supply) : k \notin Range(non_circulating_accounts)
    /\ \/ \E k \in Pubkeys \ Reported(supply) :
         /\ supply.snap.accounts[k].exists
         /\ supply.snap.accounts[k].owner = stake_program_id
         /\ stake_state_from(supply.snap.accounts[k]) = Some(RewardsPool)
       \/ \E k \in Pubkeys \ Reported(supply) :
         /\ supply.snap.accounts[k].exists
         /\ supply.snap.accounts[k].owner # stake_program_id
         /\ HasMeta(supply.snap.accounts[k])
         /\ is_in_force(MetaOf(supply.snap.accounts[k]).lockup, supply.snap.clock, None)

\* C2: a report names no identifier twice and its lamports is the sum of the
\* balances, in the snapshot, of the identifiers it names.
C2_SumOfBalances ==
    supply.kind = "Ok" =>
        /\ NoDuplicates(supply.accounts)
        /\ supply.lamports = TrueSum(supply.snap.accounts, Reported(supply))

\* C3: a call whose enumeration failed returns the scan failure and no report,
\* under the indexed and under the full-scan strategy.
C3_ScanFailurePropagates ==
    supply.scan_failed =>
        /\ supply.kind = "Err"
        /\ supply.accounts = << >>
        /\ supply.lamports = 0

\* a failed enumeration of a bank that has both static and locked stake accounts
C3_Witness ==
    /\ supply.scan_failed
    /\ supply.kind = "Err"
    /\ \E k \in Pubkeys : LockedStake(supply.snap, k)
    /\ "ProgramId" \in supply.snap.account_indexes

\* C7: every identifier of the static list is in every report.
C7_StaticInclusion ==
    supply.kind = "Ok" =>
        \A i \in DOMAIN non_circulating_accounts :
            non_circulating_accounts[i] \in Reported(supply)

\* a report on a bank where a static key has a zero balance, and one where it has
\* no account at all is reached likewise
C7_Witness ==
    /\ supply.kind = "Ok"
    /\ \E i \in DOMAIN non_circulating_accounts :
         LET k == non_circulating_accounts[i]
         IN  /\ k \in Reported(supply)
             /\ supply.snap.accounts[k].exists
             /\ supply.snap.accounts[k].lamports = 0
             /\ supply.snap.clock.epoch = MaxEpoch

\* C9: when the balances of the non-circulating identifiers sum to more than
\* 2^64 - 1, the call signals the overflow and returns no report.
C9_OverflowSignalled ==
    (/\ supply.kind # "NotCalled"
     /\ ~supply.scan_failed
     /\ TrueSum(supply.snap.accounts,
                Range(non_circulating_accounts)
                    \cup {k \in Pubkeys : LockedStake(supply.snap, k)}) > U64_MAX)
        => supply.kind = "Panic"

\* the bank with every malformed account of the stake program holding the bytes of
\* an Uninitialized stake state
AsUninitialized(bank) ==
    [bank EXCEPT !.accounts =
        [k \in Pubkeys |->
            IF Malformed(bank, k)
            THEN [bank.accounts[k] EXCEPT !.data = << DISCRIMINANT_UNINITIALIZED >>]
            ELSE bank.accounts[k]]]

\* the bank without its malformed accounts of the stake program
WithoutMalformed(bank) ==
    [bank EXCEPT !.accounts =
        [k \in Pubkeys |-> IF Malformed(bank, k) THEN NoAccount ELSE bank.accounts[k]]]

\* C4: malformed accounts of the stake program never fail the call: the outcome
\* is the one of the bank in which they hold an Uninitialized state, no malformed
\* account is classified, and the report names the identifiers it names for the
\* bank without them, wherever they stand in the enumeration.
C4_DecodeRobust ==
    (supply.kind # "NotCalled" /\ \E k \in Pubkeys : Malformed(supply.snap, k)) =>
        /\ ~supply.scan_failed => supply.kind \in {"Ok", "Panic"}
        /\ \A o1 \in Orders, o2 \in Orders :
             LET u == calculate_non_circulating_supply(AsUninitialized(supply.snap), o1,
                        supply.scan_failed, o2, overflow_checks)
             IN  /\ u.kind = supply.kind
                 /\ u.lamports = supply.lamports
                 /\ Range(u.accounts) = Reported(supply)
        /\ supply.kind = "Ok" =>
             /\ \A k \in Reported(supply) :
                  Malformed(supply.snap, k) => k \in Range(non_circulating_accounts)
             /\ \A o1 \in Orders, o2 \in Orders :
                  Range(calculate_non_circulating_supply(WithoutMalformed(supply.snap),
                            o1, FALSE, o2, FALSE).accounts) = Reported(supply)

\* a report on a bank where a malformed account stands before a locked stake
\* account in one enumeration order and after it in another
C4_Witness ==
    /\ supply.kind = "Ok"
    /\ \E m \in Pubkeys, k \in Pubkeys :
         /\ Malformed(supply.snap, m)
         /\ m \notin Reported(supply)
         /\ LockedStake(supply.snap, k)
         /\ k \in Reported(supply)
         /\ k \notin Range(non_circulating_accounts)

\* C6: a stake account whose withdrawer is a restricted authority is in the
\* report at every clock, whatever its lockup.
C6_RestrictedAuthority ==
    supply.kind = "Ok" =>
        \A k \in Pubkeys :
            (IsStakeAccount(supply.snap, k) /\ Restricted(supply.snap, k))
                => k \in Reported(supply)

\* a report that names a stake account of a restricted withdrawer whose lockup
\* has expired by epoch and by timestamp
C6_Witness ==
    /\ supply.kind = "Ok"
    /\ \E k \in Reported(supply) \ Range(non_circulating_accounts) :
         /\ IsStakeAccount(supply.snap, k)
         /\ Restricted(supply.snap, k)
         /\ MetaOf(supply.snap.accounts[k]).lockup.epoch = 1
         /\ supply.snap.clock.epoch >= 1
         /\ ~is_in_force(MetaOf(supply.snap.accounts[k]).lockup, supply.snap.clock, None)

\* the same ledger under the other enumeration strategy: without the ProgramId
\* index, or with it and any stale keys in it
OtherStrategy(bank) ==
    IF "ProgramId" \in bank.account_indexes
    THEN {[bank EXCEPT !.account_indexes = {}, !.program_index = {}]}
    ELSE {[bank EXCEPT !.account_indexes = {"ProgramId"},
                       !.program_index = StakeOwned(bank.accounts) \cup stale] :
            stale \in SUBSET (Pubkeys \ StakeOwned(bank.accounts))}

\* C10: the other enumeration strategy gives the same identifiers and the same
\* lamports for the same ledger, and a key the index lists whose account the
\* stake program no longer owns is not classified.
C10_StrategyEquivalence ==
    supply.kind = "Ok" =>
        /\ \A other \in OtherStrategy(supply.snap), o1 \in Orders, o2 \in Orders :
             LET r == calculate_non_circulating_supply(other, o1, FALSE, o2,
                                                       overflow_checks)
             IN  /\ r.kind = "Ok"
                 /\ Range(r.accounts) = Reported(supply)
                 /\ r.lamports = supply.lamports
        /\ \A k \in supply.snap.program_index :
             (/\ supply.snap.accounts[k].exists
              /\ supply.snap.accounts[k].owner # stake_program_id
              /\ k \notin Range(non_circulating_accounts))
                => k \notin Reported(supply)

\* a report made by the index, which lists a key of zero balance that another
\* program owns now and whose data is a stake state of a restricted withdrawer
C10_Witness ==
    /\ supply.kind = "Ok"
    /\ "ProgramId" \in supply.snap.account_indexes
    /\ \E k \in supply.snap.program_index \ Reported(supply) :
         /\ supply.snap.accounts[k].exists
         /\ supply.snap.accounts[k].owner # stake_program_id
         /\ supply.snap.accounts[k].lamports = 0
         /\ HasMeta(supply.snap.accounts[k])
         /\ MetaOf(supply.snap.accounts[k]).authorized.withdrawer \in Range(withdraw_authority)
    /\ \E k \in Reported(supply) : LockedStake(supply.snap, k)

-----------------------------------------------------------------------------
(* Two reports: the parent bank's and its child's *)

BothReported == parent_supply.kind = "Ok" /\ supply.kind = "Ok"

\* a stake account whose withdrawer is no restricted authority
UnrestrictedStake(bank, k) == IsStakeAccount(bank, k) /\ ~Restricted(bank, k)

UnlockEpoch(bank, k) == MetaOf(bank.accounts[k]).lockup.epoch
UnlockTimestamp(bank, k) == MetaOf(bank.accounts[k]).lockup.unix_timestamp

\* the child's report follows the parent's, the ledger is the same, and the
\* clock went from before the unlock epoch of k to it or past it
ExpiredBetween(k) ==
    /\ BothReported
    /\ supply.snap.accounts = parent_supply.snap.accounts
    /\ UnrestrictedStake(parent_supply.snap, k)
    /\ parent_supply.snap.clock.epoch < UnlockEpoch(parent_supply.snap, k)
    /\ supply.snap.clock.epoch >= UnlockEpoch(supply.snap, k)

IncludedBeforeUnlockEpoch ==
    \A k \in Pubkeys :
        (/\ supply.kind = "Ok"
         /\ UnrestrictedStake(supply.snap, k)
         /\ supply.snap.clock.epoch < UnlockEpoch(supply.snap, k))
            => k \in Reported(supply)

\* C5 as claimed: a stake account of no restricted withdrawer is in the report
\* before its unlock epoch E, and out of the report, its balance with it, once the
\* snapshot is at an epoch >= E with nothing else changed.
C5_AsClaimed ==
    /\ IncludedBeforeUnlockEpoch
    /\ \A k \in Pubkeys :
         ExpiredBetween(k) =>
            /\ k \in Reported(parent_supply)
            /\ k \notin Reported(supply)
            /\ supply.lamports =
                 TrueSum(supply.snap.accounts, Reported(supply) \ {k}) % U64_MODULUS

\* C5 amended: the same, for an account that is not in the static list and whose
\* unlock timestamp is not later than the advanced clock's unix_timestamp.
C5_LockupExpiry ==
    /\ IncludedBeforeUnlockEpoch
    /\ \A k \in Pubkeys :
         (/\ ExpiredBetween(k)
          /\ k \notin Range(non_circulating_accounts)
          /\ UnlockTimestamp(supply.snap, k) <= supply.snap.clock.unix_timestamp) =>
            /\ k \in Reported(parent_supply)
            /\ k \notin Reported(supply)
            /\ supply.lamports =
                 TrueSum(supply.snap.accounts, Reported(supply) \ {k}) % U64_MODULUS

\* the parent's report names a stake account under an epoch lockup, and the
\* report of the child, one epoch later, does not
C5_Witness ==
    \E k \in Pubkeys \ Range(non_circulating_accounts) :
        /\ ExpiredBetween(k)
        /\ UnlockTimestamp(supply.snap, k) <= supply.snap.clock.unix_timestamp
        /\ k \in Reported(parent_supply)
        /\ k \notin Reported(supply)
        /\ supply.snap.accounts[k].lamports > 0
        /\ supply.lamports < parent_supply.lamports

\* between the two reports only the balance of k changed, and no key changed
\* sides under the classification rule
OnlyBalanceChanged(k) ==
    /\ BothReported
    /\ parent_supply.snap.accounts[k].exists
    /\ supply.snap.accounts[k].exists
    /\ supply.snap.accounts[k].lamports # parent_supply.snap.accounts[k].lamports
    /\ supply.snap.accounts =
         [parent_supply.snap.accounts EXCEPT ![k].lamports = supply.snap.accounts[k].lamports]
    /\ \A j \in Pubkeys : LockedStake(supply.snap, j) <=> LockedStake(parent_supply.snap, j)

\* C8: when only the balance of an identifier changes between two snapshots, the
\* second report names the same identifiers; its lamports differs from the
\* first's by the change if the identifier is reported, and not at all if not.
C8_BalanceFreshness ==
    \A k \in Pubkeys :
        OnlyBalanceChanged(k) =>
            /\ Reported(supply) = Reported(parent_supply)
            /\ supply.lamports - parent_supply.lamports =
                 IF k \in Reported(parent_supply)
                 THEN supply.snap.accounts[k].lamports - parent_supply.snap.accounts[k].lamports
                 ELSE 0

====
